---- MODULE Spec2Model ----
(***************************************************************************)
(* A model of sph1dtests: the SPH kernels, the density sum, the            *)
(* smoothing-length solve, the data containers and the pressure-entropy    *)
(* adiabat iteration.                                                      *)
(*                                                                         *)
(* Real numbers are exact rationals <<n, d>> with d > 0, kept in lowest    *)
(* terms.  scipy.optimize.root is a library outside the repository: it is  *)
(* modelled by what the repository's code can observe of it, a sequence of *)
(* calls of the objective followed by a result `fitted` with an estimate   *)
(* x and a success flag.                                                   *)
(***************************************************************************)
EXTENDS Integers, Sequences, FiniteSets, TLC

VARIABLES
    pc,        \* position of the running call
    kern,      \* SpecKernel: the kernel function being evaluated
    sep,       \* SpecKernel: its argument r
    smooth,    \* SpecKernel: its argument h
    weight,    \* SpecKernel: the value returned
    args,      \* SpecGadget: the arguments of the call of density or h
    dens,      \* SpecGadget: the value density returned last
    this_h,    \* SpecGadget: the trial point of the last call of to_reduce
    fx,        \* SpecGadget: what that call returned
    iterate,   \* SpecGadget: root's current estimate x
    evals,     \* SpecGadget: calls of to_reduce made by this root search
    fitted,    \* SpecGadget: the result object root returned
    ret,       \* SpecGadget: the value h returned
    margs,     \* SpecMinimise: the arguments of the call of minimise_A
    old,       \* SpecMinimise: minimise_A's list old
    new,       \* SpecMinimise: minimise_A's list new, A inside A_reduced
    difference,\* SpecMinimise: minimise_A's difference
    index,     \* SpecMinimise: the loop index (from 0, as in the code)
    this_A,    \* SpecMinimise: the trial point of the last call of to_reduce
    P_read,    \* SpecMinimise: the list A that call handed to pressure
    residual,  \* SpecMinimise: what that call returned
    estimate,  \* SpecMinimise: root's current estimate x
    calls,     \* SpecMinimise: calls of to_reduce made by this root search
    A_fitted,  \* SpecMinimise: the result object root returned last
    result,    \* SpecMinimise: the list minimise_A returned
    sweep_start, \* history: new as it stood when the current sweep began
    swept,     \* history: what A_reduced returned for each particle so far
                \* in the current sweep
    sweeps,    \* history: completed sweeps, counted up to MaxSweeps
    cargs,     \* SpecContainers: the class constructed and its arguments
    gd,        \* SpecContainers: the GadgetData object under construction
    pe,        \* SpecContainers: the PressureEntropyData object under
               \* construction
    err,       \* SpecContainers: the exception that left the constructor
    caught     \* history: the exceptions an except clause has swallowed

kvars == <<kern, sep, smooth, weight>>
gvars == <<args, dens, this_h, fx, iterate, evals, fitted, ret>>
mvars == <<margs, old, new, difference, index, this_A, P_read, residual,
           estimate, calls, A_fitted, result, sweep_start, swept, sweeps>>
cvars == <<cargs, gd, pe, err, caught>>
vars == <<pc, kvars, gvars, mvars, cvars>>

(* Python's None, as a value that is neither a number <<n, d>> nor a list  *)
(* of numbers; where a kernel or a name is expected, the string "None".    *)
None == <<<<>>>>

-----------------------------------------------------------------------------
(* Exact rational arithmetic.                                              *)

RECURSIVE Gcd(_, _)
Gcd(a, b) == IF b = 0 THEN a ELSE Gcd(b, a % b)

Abs(x) == IF x < 0 THEN -x ELSE x

Norm(n, d) ==
    LET g == Gcd(Abs(n), Abs(d))
        s == IF d < 0 THEN -1 ELSE 1
    IN  <<(s * n) \div g, (s * d) \div g>>

Q(n, d) == Norm(n, d)
I(n) == <<n, 1>>
RAdd(a, b) ==
    IF a[2] = b[2] THEN Norm(a[1] + b[1], a[2])
    ELSE LET g == Gcd(a[2], b[2])
         IN  Norm(a[1] * (b[2] \div g) + b[1] * (a[2] \div g),
                  a[2] * (b[2] \div g))
RSub(a, b) == RAdd(a, <<-b[1], b[2]>>)
RMul(a, b) == Norm(a[1] * b[1], a[2] * b[2])
RDiv(a, b) == Norm(a[1] * b[2], a[2] * b[1])
RLt(a, b) == a[1] * b[2] < b[1] * a[2]
RLe(a, b) == a[1] * b[2] <= b[1] * a[2]
RAbs(a) == <<Abs(a[1]), a[2]>>
RCube(a) == RMul(a, RMul(a, a))
RPow5(a) == RMul(RMul(a, a), RCube(a))

-----------------------------------------------------------------------------
(* The kernels of sphtests/sph.py.                                         *)

(* gadget_kernel without its last branch: the outer polynomial is used     *)
(* beyond factor = 1 as well.                                              *)
gadget_kernel_unclamped(r, h) ==
    LET factor == RDiv(r, h)
        factor2 == RMul(factor, factor)
        prefactor == RDiv(I(4), RMul(I(3), h))
        poly == IF RLe(factor, Q(1, 2))
                THEN RAdd(RSub(I(1), RMul(I(6), factor2)),
                          RMul(RMul(I(6), factor2), factor))
                ELSE RMul(I(2), RCube(RSub(I(1), factor)))
    IN  RMul(prefactor, poly)

gadget_kernel(r, h) ==
    LET factor == RDiv(r, h)
        factor2 == RMul(factor, factor)
        prefactor == RDiv(I(4), RMul(I(3), h))
        poly == IF RLe(factor, Q(1, 2))
                THEN RAdd(RSub(I(1), RMul(I(6), factor2)),
                          RMul(RMul(I(6), factor2), factor))
                ELSE IF RLe(factor, I(1))
                THEN LET one_minus_factor == RSub(I(1), factor)
                     IN  RMul(I(2), RCube(one_minus_factor))
                ELSE I(0)
    IN  RMul(prefactor, poly)

cubic_kernel(r, h) ==
    LET factor == RDiv(r, h)
        prefactor == RDiv(I(2), RMul(I(3), h))
        poly == IF RLt(factor, I(1))
                THEN RSub(RMul(Q(1, 4), RCube(RSub(I(2), factor))),
                          RCube(RSub(I(1), factor)))
                ELSE IF RLt(factor, I(2))
                THEN RMul(Q(1, 4), RCube(RSub(I(2), factor)))
                ELSE I(0)
    IN  RMul(prefactor, poly)

quintic_kernel(r, h) ==
    LET q == RDiv(r, h)
        prefactor == RDiv(I(1), RMul(I(120), h))
        poly == IF RLt(q, I(1))
                THEN RAdd(RSub(RPow5(RSub(I(3), q)),
                               RMul(I(6), RPow5(RSub(I(2), q)))),
                          RMul(I(15), RPow5(RSub(I(1), q))))
                ELSE IF RLt(q, I(2))
                THEN RSub(RPow5(RSub(I(3), q)),
                          RMul(I(6), RPow5(RSub(I(2), q))))
                ELSE IF RLt(q, I(3))
                THEN RPow5(RSub(I(3), q))
                ELSE I(0)
    IN  RMul(poly, prefactor)

tophat_kernel(r, h) ==
    LET prefactor == RDiv(I(1), RMul(I(2), h))
    IN  IF RLt(RDiv(r, h), I(1)) THEN prefactor ELSE I(0)

triangle_kernel(r, h) ==
    LET prefactor == RDiv(I(1), h)
    IN  IF RLt(RDiv(r, h), I(1))
        THEN RMul(RSub(I(1), RDiv(r, h)), prefactor)
        ELSE I(0)

(* numpy's sqrt and exp, to a stated precision: Sqrt rounds down to a      *)
(* multiple of 1/100, Exp(-x) is the reciprocal of the Taylor polynomial   *)
(* 1 + x + x^2/2 of exp(x); both keep the sign and the value at 0 of the   *)
(* functions they stand for.  pi is 22/7.                                  *)
RECURSIVE ISqrt(_, _, _)
ISqrt(n, lo, hi) ==
    IF lo >= hi THEN lo
    ELSE LET mid == (lo + hi + 1) \div 2
         IN  IF mid * mid <= n THEN ISqrt(n, mid, hi) ELSE ISqrt(n, lo, mid - 1)

sqrt(a) == Q(ISqrt((a[1] * 10000) \div a[2], 0, 1000), 100)

exp(a) ==
    LET x == RSub(I(0), a)
    IN  RDiv(I(1), RAdd(RAdd(I(1), x), RMul(Q(1, 2), RMul(x, x))))

pi == Q(22, 7)

gaussian_kernel(r, h) ==
    LET sigma == RDiv(h, I(2))
        prefactor == RDiv(I(1), sqrt(RMul(RMul(I(2), pi), sigma)))
        rs == RDiv(r, sigma)
        exponential == exp(RMul(Q(-1, 2), RMul(rs, rs)))
    IN  RMul(prefactor, exponential)

(* The kernel of the top-level sph.py, with its three-dimensional          *)
(* normalisation.                                                          *)
sph_kernel(r, h) ==
    LET factor == RDiv(r, h)
        factor2 == RMul(factor, factor)
        prefactor == RDiv(I(8), RMul(pi, RCube(h)))
        poly == IF RLe(factor, Q(1, 2))
                THEN RAdd(RSub(I(1), RMul(I(6), factor2)),
                          RMul(RMul(I(6), factor2), factor))
                ELSE IF RLe(factor, I(1))
                THEN LET one_minus_factor == RSub(I(1), factor)
                     IN  RMul(I(2), RCube(one_minus_factor))
                ELSE I(0)
    IN  RMul(prefactor, poly)

(* A kernel is passed around as a callable; the model passes its name.     *)
Kernels == {"gadget_kernel", "cubic_kernel", "quintic_kernel",
            "gaussian_kernel", "tophat_kernel", "triangle_kernel"}

kernel_at(kernel, radius, h) ==
    CASE kernel = "gadget_kernel" -> gadget_kernel(radius, h)
      [] kernel = "cubic_kernel" -> cubic_kernel(radius, h)
      [] kernel = "quintic_kernel" -> quintic_kernel(radius, h)
      [] kernel = "gaussian_kernel" -> gaussian_kernel(radius, h)
      [] kernel = "tophat_kernel" -> tophat_kernel(radius, h)
      [] kernel = "triangle_kernel" -> triangle_kernel(radius, h)
      [] kernel = "sph.kernel" -> sph_kernel(radius, h)

-----------------------------------------------------------------------------
(* Bounds of the model.                                                    *)

MaxR2 == 8      \* separations are 0, 1/2, ..., MaxR2/2
MaxH2 == 4      \* smoothing lengths are 1/2, 1, ..., MaxH2/2

MaxN == 2       \* at most MaxN particles
MaxPos2 == 2    \* positions are 0, 1/2, ..., MaxPos2/2
MaxEvals == 2   \* one root search calls its objective at most MaxEvals times

MaxParticles == 2 \* minimise_A is called with at most MaxParticles particles
MaxSweeps == 2  \* completed sweeps are counted up to MaxSweeps

RVals == {Q(a, 2) : a \in 0..MaxR2}
HVals == {Q(b, 2) : b \in 1..MaxH2}
PosVals == {Q(a, 2) : a \in 0..MaxPos2}
Positions == UNION {[1..n -> PosVals] : n \in 1..MaxN}

-----------------------------------------------------------------------------
(* SpecKernel: one call kernel(r, h) of any of the six kernels, r >= 0 and *)
(* h > 0.                                                                  *)

IdleKernel == kern = "None" /\ sep = None /\ smooth = None /\ weight = None

IdleGadget ==
    /\ args = None /\ dens = None /\ this_h = None /\ fx = None
    /\ iterate = None /\ evals = 0
    /\ fitted = [x |-> None, success |-> FALSE] /\ ret = None

IdleMinimise ==
    /\ margs = None /\ old = None /\ new = None /\ difference = None
    /\ index = 0 /\ this_A = None /\ P_read = None /\ residual = None
    /\ estimate = None /\ calls = 0
    /\ A_fitted = [x |-> None, success |-> FALSE]
    /\ result = None /\ sweep_start = None /\ swept = <<>> /\ sweeps = 0

IdleContainers ==
    /\ cargs = None /\ gd = None /\ pe = None /\ err = "None" /\ caught = {}

InitKernel ==
    /\ IdleGadget /\ IdleMinimise /\ IdleContainers
    /\ pc = "kernel"
    /\ kern \in Kernels
    /\ sep \in RVals
    /\ smooth \in HVals
    /\ weight = None

kernel_call ==
    /\ pc = "kernel"
    /\ weight' = kernel_at(kern, sep, smooth)
    /\ pc' = "kernel_returned"
    /\ UNCHANGED <<kern, sep, smooth, gvars, mvars, cvars>>

NextKernel == kernel_call

SpecKernel == InitKernel /\ [][NextKernel]_vars

-----------------------------------------------------------------------------
(* sphtests/sph.py: separations and diff; sphtests/gadget.py and the       *)
(* top-level gadget.py: density and h.                                     *)

separations(radius, radii) ==
    [j \in 1..Len(radii) |-> RAbs(RSub(radii[j], radius))]

(* GadgetData.separations of the top-level containers.py.                  *)
GadgetData_separations(radius, radii) ==
    [j \in 1..Len(radii) |-> RSub(radii[j], radius)]

RECURSIVE RSum(_)
RSum(s) == IF Len(s) = 0 THEN I(0) ELSE RAdd(s[1], RSum(Tail(s)))

diff(x, y) ==
    LET n == IF Len(x) < Len(y) THEN Len(x) ELSE Len(y)
    IN  RSum([i \in 1..n |-> RAbs(RSub(x[i], y[i]))])

(* density with the particle's own term (r = 0) left out of the sum.       *)
density_without_self(r, h, masses, kernel) ==
    RSum([j \in 1..Len(r) |->
            IF r[j] = I(0) THEN I(0) ELSE kernel_at(kernel, r[j], h)])

density(r, h, masses, kernel) ==
    LET weights == [j \in 1..Len(r) |-> kernel_at(kernel, r[j], h)]
        n == IF Len(masses) < Len(r) THEN Len(masses) ELSE Len(r)
    IN  IF masses # None
        THEN RSum([j \in 1..n |-> RMul(masses[j], weights[j])])
        ELSE RSum(weights)

(* h's nested objective.  Neither variant of h takes a kernel: density is  *)
(* called without one and uses its default.                                *)
default_kernel(variant) ==
    IF variant = "sphtests" THEN "gadget_kernel" ELSE "sph.kernel"

to_reduce(a, t) ==
    LET d == density(a.r, t, a.masses, default_kernel(a.variant))
    IN  RSub(RMul(RDiv(t, RMul(a.mass, a.eta)), d), I(1))

(* root's tolerance: tol when given, else the library's default, which no  *)
(* value of this grid but an exact root meets.                             *)
root_tol(tol) == IF tol = None THEN I(0) ELSE tol

EtaVals == {Q(21, 25), Q(1, 5), Q(4, 3)}
TolVals == {None, Q(1, 100)}

SepLists(variant) ==
    {IF variant = "sphtests"
     THEN separations(p[i], p) ELSE GadgetData_separations(p[i], p) :
        <<p, i>> \in {<<q, k>> \in Positions \X (1..MaxN) : k <= Len(q)}}

DensityArgs ==
    {[fn |-> "density", variant |-> "sphtests", r |-> rr, h |-> hh,
      masses |-> None, kernel |-> k, initial |-> None, mass |-> None,
      eta |-> None, tol |-> None] :
        <<rr, hh, k>> \in SepLists("sphtests") \X HVals \X Kernels}

HArgs ==
    UNION {{[fn |-> "h", variant |-> v, r |-> rr, h |-> None, masses |-> None,
             kernel |-> "None", initial |-> I(1), mass |-> I(1), eta |-> e,
             tol |-> t] :
               <<rr, e, t>> \in SepLists(v) \X EtaVals \X TolVals} :
           v \in {"sphtests", "legacy"}}

InitGadget ==
    /\ IdleKernel /\ IdleMinimise /\ IdleContainers
    /\ pc = "gadget"
    /\ args \in DensityArgs \cup HArgs
    /\ dens = None /\ this_h = None /\ fx = None
    /\ iterate = None /\ evals = 0
    /\ fitted = [x |-> None, success |-> FALSE] /\ ret = None

density_call ==
    /\ pc = "gadget" /\ args.fn = "density"
    /\ dens' = density(args.r, args.h, args.masses, args.kernel)
    /\ pc' = "density_returned"
    /\ UNCHANGED <<kvars, args, this_h, fx, iterate, evals, fitted, ret, mvars, cvars>>

(* h calls root(to_reduce, initial): root calls the objective first at the *)
(* initial guess.                                                          *)
h_call ==
    /\ pc = "gadget" /\ args.fn = "h"
    /\ this_h' = args.initial
    /\ fx' = to_reduce(args, args.initial)
    /\ iterate' = args.initial
    /\ evals' = 1
    /\ pc' = "h_root"
    /\ UNCHANGED <<kvars, args, dens, fitted, ret, mvars, cvars>>

(* root calls the objective at another point, and takes it as its estimate *)
(* or not (a Jacobian probe, a rejected step).                             *)
h_root_eval ==
    /\ pc = "h_root" /\ evals < MaxEvals
    /\ \E t \in HVals, accept \in BOOLEAN :
          /\ this_h' = t
          /\ fx' = to_reduce(args, t)
          /\ iterate' = IF accept THEN t ELSE iterate
    /\ evals' = evals + 1
    /\ UNCHANGED <<pc, kvars, args, dens, fitted, ret, mvars, cvars>>

(* root returns; it reports success only at an estimate that meets its     *)
(* tolerance.                                                              *)
h_root_return ==
    /\ pc = "h_root"
    /\ \E ok \in BOOLEAN :
          /\ ok => RLe(RAbs(to_reduce(args, iterate)), root_tol(args.tol))
          /\ fitted' = [x |-> iterate, success |-> ok]
    /\ pc' = "h_fitted"
    /\ UNCHANGED <<kvars, args, dens, this_h, fx, iterate, evals, ret, mvars, cvars>>

(* return fitted.x[0]; h's locals are gone.                                *)
h_return ==
    /\ pc = "h_fitted"
    /\ ret' = fitted.x
    /\ pc' = "h_returned"
    /\ this_h' = None /\ fx' = None /\ iterate' = None /\ evals' = 0
    /\ fitted' = [x |-> None, success |-> FALSE]
    /\ UNCHANGED <<kvars, args, dens, mvars, cvars>>

NextGadget ==
    \/ density_call
    \/ h_call
    \/ h_root_eval
    \/ h_root_return
    \/ h_return

SpecGadget == InitGadget /\ [][NextGadget]_vars

-----------------------------------------------------------------------------
(* sphtests/pressure_entropy.py: pressure and A_reduced;                   *)
(* PressureEntropyData.minimise_A of sphtests/containers.py.               *)

(* a ** e, for the exponents that gamma = 2 gives: 1/gamma = 1/2,          *)
(* gamma = gamma / (gamma - 1) = 2.                                        *)
power(a, e) ==
    CASE e = I(1) -> a
      [] e = I(2) -> RMul(a, a)
      [] e = Q(1, 2) -> sqrt(a)

pressure(r, A, h, kernel, gamma, masses) ==
    LET one_over_gamma == RDiv(I(1), gamma)
        weights == [j \in 1..Len(r) |-> kernel_at(kernel, r[j], h)]
        As == [j \in 1..Len(A) |-> power(A[j], one_over_gamma)]
        n == IF Len(weights) < Len(As) THEN Len(weights) ELSE Len(As)
        P == IF masses # None
             THEN RSum([j \in 1..n |->
                          RMul(RMul(masses[j], weights[j]), As[j])])
             ELSE RSum([j \in 1..n |-> RMul(weights[j], As[j])])
    IN  power(P, gamma)

(* A[index] = this_A, guarded by index != -1, with a 0-based index into a  *)
(* list the model indexes from 1.  As a bug would have it: the slot after. *)
A_store_next_slot(A, i, value) ==
    IF i # -1 /\ i + 2 \in DOMAIN A THEN [A EXCEPT ![i + 2] = value] ELSE A

A_store(A, i, value) ==
    IF i # -1 THEN [A EXCEPT ![i + 1] = value] ELSE A

(* The value of A_reduced's nested to_reduce, A being the list after the   *)
(* store.                                                                  *)
A_to_reduce(r, A, h, energy, kernel, gamma, masses, value) ==
    LET gamma_minus_1 == RSub(gamma, I(1))
        P_sum == pressure(r, A, h, kernel, gamma, masses)
        P_calc == RMul(value,
                       power(RMul(RDiv(energy, value), gamma_minus_1),
                             RDiv(gamma, gamma_minus_1)))
    IN  RSub(I(1), RDiv(P_sum, P_calc))

(* difference = tol + 1; as a bug would have it: difference = tol.         *)
initial_difference_tol(tol) == tol

initial_difference(tol) == RAdd(tol, I(1))

(* The adiabats minimise_A is called with, and root's trial points.        *)
AVals == {I(1), I(2)}
SweepTols == {I(-1), I(0), I(1)}

MinimiseArgs ==
    UNION {{[A |-> a, r |-> [j \in 1..n |-> I(j - 1)],
             h |-> [j \in 1..n |-> I(2)],
             energies |-> [j \in 1..n |-> I(1)],
             kernel |-> k, tol |-> t, gamma |-> I(2)] :
               <<a, k, t>> \in [1..n -> AVals] \X {"gadget_kernel"}
                                 \X SweepTols} :
           n \in 0..MaxParticles}

InitMinimise ==
    /\ IdleKernel /\ IdleGadget /\ IdleContainers
    /\ pc = "minimise_A"
    /\ margs \in MinimiseArgs
    /\ old = None /\ new = None /\ difference = None
    /\ index = 0 /\ this_A = None /\ P_read = None /\ residual = None
    /\ estimate = None /\ calls = 0
    /\ A_fitted = [x |-> None, success |-> FALSE]
    /\ result = None /\ sweep_start = None /\ swept = <<>> /\ sweeps = 0

(* difference = tol + 1; old = A.copy(); new = old.copy()                  *)
minimise_A_call ==
    /\ pc = "minimise_A"
    /\ difference' = initial_difference(margs.tol)
    /\ old' = margs.A
    /\ new' = margs.A
    /\ pc' = "while"
    /\ UNCHANGED <<kvars, gvars, cvars, margs, index, this_A, P_read, residual,
                   estimate, calls, A_fitted, result, sweep_start, swept,
                   sweeps>>

(* while difference > tol: enter the for loop                              *)
minimise_A_sweep ==
    /\ pc = "while"
    /\ RLt(margs.tol, difference)
    /\ index' = 0
    /\ sweep_start' = new
    /\ swept' = <<>>
    /\ pc' = "for"
    /\ UNCHANGED <<kvars, gvars, cvars, margs, old, new, difference, this_A, P_read,
                   residual, estimate, calls, A_fitted, result, sweeps>>

(* The number of triples zip(old, h, energies) yields.                     *)
zip_length ==
    LET m == IF Len(old) < Len(margs.h) THEN Len(old) ELSE Len(margs.h)
    IN  IF m < Len(margs.energies) THEN m ELSE Len(margs.energies)

(* One call of to_reduce(value) by root inside A_reduced for particle      *)
(* index: the store into the shared list, then the objective read from it. *)
to_reduce_effect(value) ==
    LET A == A_store(new, index, value)
        separations_ == separations(margs.r[index + 1], margs.r)
    IN  /\ this_A' = value
        /\ new' = A
        /\ P_read' = A
        /\ residual' = A_to_reduce(separations_, A, margs.h[index + 1],
                                   margs.energies[index + 1], margs.kernel,
                                   margs.gamma, None, value)

(* The loop body for the next particle: A_reduced(separations, new,        *)
(* this_h, this_u, this_A, index, kernel, gamma) calls root(to_reduce,     *)
(* initial), which calls the objective first at initial = old[index].      *)
A_reduced_call ==
    /\ pc = "for"
    /\ index < zip_length
    /\ to_reduce_effect(old[index + 1])
    /\ estimate' = old[index + 1]
    /\ calls' = 1
    /\ pc' = "A_root"
    /\ UNCHANGED <<kvars, gvars, cvars, margs, old, difference, index, A_fitted,
                   result, sweep_start, swept, sweeps>>

(* root calls the objective at another point, and takes it as its estimate *)
(* or not.                                                                 *)
A_root_eval ==
    /\ pc = "A_root" /\ calls < MaxEvals
    /\ \E t \in AVals :
          /\ to_reduce_effect(t)
          /\ \E accept \in BOOLEAN :
                estimate' = IF accept THEN t ELSE estimate
    /\ calls' = calls + 1
    /\ UNCHANGED <<pc, kvars, gvars, cvars, margs, old, difference, index, A_fitted,
                   result, sweep_start, swept, sweeps>>

(* root returns fitted; it reports success only at an exact root.          *)
A_root_return ==
    /\ pc = "A_root"
    /\ \E ok \in BOOLEAN :
          /\ ok => (residual = I(0) /\ this_A = estimate)
          /\ A_fitted' = [x |-> estimate, success |-> ok]
    /\ pc' = "A_fitted"
    /\ UNCHANGED <<kvars, gvars, cvars, margs, old, new, difference, index, this_A,
                   P_read, residual, estimate, calls, result, sweep_start,
                   swept, sweeps>>

(* if index != -1: A[index] = fitted.x[0]; return fitted.x[0], A.  The     *)
(* loop goes on to the next particle, and A_reduced's locals are gone.     *)
A_reduced_return ==
    /\ pc = "A_fitted"
    /\ new' = A_store(new, index, A_fitted.x)
    /\ swept' = Append(swept, A_fitted.x)
    /\ index' = index + 1
    /\ pc' = "for"
    /\ this_A' = None /\ P_read' = None /\ residual' = None
    /\ estimate' = None /\ calls' = 0
    /\ A_fitted' = [x |-> None, success |-> FALSE]
    /\ UNCHANGED <<kvars, gvars, cvars, margs, old, difference, result, sweep_start,
                   sweeps>>

(* The for loop is exhausted: difference = sph.diff(old, new);             *)
(* old = new.copy()                                                        *)
minimise_A_sweep_end ==
    /\ pc = "for"
    /\ index >= zip_length
    /\ difference' = diff(old, new)
    /\ old' = new
    /\ sweeps' = IF sweeps < MaxSweeps THEN sweeps + 1 ELSE sweeps
    /\ pc' = "while"
    /\ UNCHANGED <<kvars, gvars, cvars, margs, new, index, this_A, P_read, residual,
                   estimate, calls, A_fitted, result, sweep_start, swept>>

(* The while condition fails: return old                                   *)
minimise_A_return ==
    /\ pc = "while"
    /\ ~RLt(margs.tol, difference)
    /\ result' = old
    /\ pc' = "minimise_A_returned"
    /\ UNCHANGED <<kvars, gvars, cvars, margs, old, new, difference, index, this_A,
                   P_read, residual, estimate, calls, A_fitted, sweep_start,
                   swept, sweeps>>

NextMinimise ==
    \/ minimise_A_call
    \/ minimise_A_sweep
    \/ A_reduced_call
    \/ A_root_eval
    \/ A_root_return
    \/ A_reduced_return
    \/ minimise_A_sweep_end
    \/ minimise_A_return

SpecMinimise == InitMinimise /\ [][NextMinimise]_vars

-----------------------------------------------------------------------------
(* sphtests/pressure_entropy.py: one call of A_reduced on its own, index   *)
(* being a particle of the list or -1.                                     *)

(* if index != -1: A[index] = fitted.x[0].  Without the guard index = -1   *)
(* is Python's last slot.                                                  *)
A_store_fitted_unguarded(A, i, value) ==
    IF i = -1
    THEN (IF Len(A) > 0 THEN [A EXCEPT ![Len(A)] = value] ELSE A)
    ELSE [A EXCEPT ![i + 1] = value]

A_store_fitted(A, i, value) ==
    IF i # -1 THEN [A EXCEPT ![i + 1] = value] ELSE A

AReducedArgs ==
    UNION {{[A |-> a,
             r |-> separations(I(IF i = -1 THEN 0 ELSE i),
                               [j \in 1..n |-> I(j - 1)]),
             h |-> I(2), energy |-> I(1), initial |-> init, index |-> i,
             kernel |-> "gadget_kernel", gamma |-> I(2)] :
               <<a, init, i>> \in [1..n -> AVals] \X AVals \X (-1..(n - 1))} :
           n \in 1..MaxParticles}

InitAReduced ==
    /\ IdleKernel /\ IdleGadget /\ IdleContainers
    /\ pc = "A_reduced"
    /\ margs \in AReducedArgs
    /\ new = margs.A
    /\ index = margs.index
    /\ old = None /\ difference = None
    /\ this_A = None /\ P_read = None /\ residual = None
    /\ estimate = None /\ calls = 0
    /\ A_fitted = [x |-> None, success |-> FALSE]
    /\ result = None /\ sweep_start = None /\ swept = <<>> /\ sweeps = 0

(* One call of to_reduce(value) by root: the guarded store into A, then    *)
(* the objective read from A.                                              *)
A_reduced_to_reduce(value) ==
    LET A == A_store(new, index, value)
    IN  /\ this_A' = value
        /\ new' = A
        /\ P_read' = A
        /\ residual' = A_to_reduce(margs.r, A, margs.h, margs.energy,
                                   margs.kernel, margs.gamma, None, value)

(* root(to_reduce, initial) calls the objective first at initial.          *)
A_reduced_root ==
    /\ pc = "A_reduced"
    /\ A_reduced_to_reduce(margs.initial)
    /\ estimate' = margs.initial
    /\ calls' = 1
    /\ pc' = "A_reduced_root"
    /\ UNCHANGED <<kvars, gvars, cvars, margs, old, difference, index,
                   A_fitted, result, sweep_start, swept, sweeps>>

(* root calls the objective at another point, and takes it as its estimate *)
(* or not.                                                                 *)
A_reduced_root_eval ==
    /\ pc = "A_reduced_root" /\ calls < MaxEvals
    /\ \E t \in AVals :
          /\ A_reduced_to_reduce(t)
          /\ \E accept \in BOOLEAN :
                estimate' = IF accept THEN t ELSE estimate
    /\ calls' = calls + 1
    /\ UNCHANGED <<pc, kvars, gvars, cvars, margs, old, difference, index,
                   A_fitted, result, sweep_start, swept, sweeps>>

(* root returns fitted; it reports success only at an exact root.          *)
A_reduced_root_return ==
    /\ pc = "A_reduced_root"
    /\ \E ok \in BOOLEAN :
          /\ ok => (residual = I(0) /\ this_A = estimate)
          /\ A_fitted' = [x |-> estimate, success |-> ok]
    /\ pc' = "A_reduced_fitted"
    /\ UNCHANGED <<kvars, gvars, cvars, margs, old, new, difference, index,
                   this_A, P_read, residual, estimate, calls, result,
                   sweep_start, swept, sweeps>>

(* if index != -1: A[index] = fitted.x[0]; return fitted.x[0], A           *)
A_reduced_returns ==
    /\ pc = "A_reduced_fitted"
    /\ new' = A_store_fitted(new, index, A_fitted.x)
    /\ result' = A_fitted.x
    /\ pc' = "A_reduced_returned"
    /\ UNCHANGED <<kvars, gvars, cvars, margs, old, difference, index,
                   this_A, P_read, residual, estimate, calls, A_fitted,
                   sweep_start, swept, sweeps>>

NextAReduced ==
    \/ A_reduced_root
    \/ A_reduced_root_eval
    \/ A_reduced_root_return
    \/ A_reduced_returns

SpecAReduced == InitAReduced /\ [][NextAReduced]_vars

-----------------------------------------------------------------------------
(* The constructors of sphtests/containers.py (GadgetData and              *)
(* PressureEntropyData) and of the top-level containers.py (GadgetData).   *)

(* An attribute the constructor has not assigned yet.                      *)
Unset == <<<<>>, <<>>>>

gas_pressure(rho, u, gamma) ==
    LET g_minus_1 == RSub(gamma, I(1))
    IN  RMul(RMul(g_minus_1, rho), u)

gas_pressure_adiabat(rho, adiabat, gamma) == RMul(adiabat, power(rho, gamma))

internal_energy(adiabat, rho, gamma) ==
    LET g_minus_1 == RSub(gamma, I(1))
    IN  RMul(RDiv(adiabat, g_minus_1), power(rho, g_minus_1))

pressure_entropy_A(energy, rho, gamma) ==
    LET g_minus_1 == RSub(gamma, I(1))
    IN  RDiv(RMul(energy, g_minus_1), power(rho, g_minus_1))

smoothed_density(A, P, gamma) == power(RDiv(P, A), RDiv(I(1), gamma))

(* list(map(F, a, b)): as long as the shorter list.                        *)
map2(F(_, _), a, b) ==
    LET n == IF Len(a) < Len(b) THEN Len(a) ELSE Len(b)
    IN  [j \in 1..n |-> F(a[j], b[j])]

(* The checks that open GadgetData.__init__: the exception raised, or none.*)
(* As a bug would have it: only the check for neither.                     *)
GadgetData_validate_neither(energies, adiabats) ==
    IF adiabats = None /\ energies = None THEN "AttributeError" ELSE "None"

GadgetData_validate(energies, adiabats) ==
    IF adiabats = None /\ energies = None THEN "AttributeError"
    ELSE IF adiabats # None /\ energies # None THEN "AttributeError"
    ELSE "None"

(* The same checks, opening PressureEntropyData.__init__.                  *)
PressureEntropyData_validate(energies, adiabats) ==
    IF adiabats = None /\ energies = None THEN "AttributeError"
    ELSE IF adiabats # None /\ energies # None THEN "AttributeError"
    ELSE "None"

(* The parameters of sphtests/gadget.py's h, and the keywords calc_this_h  *)
(* calls it with.                                                          *)
h_parameters == {"r", "initial", "mass", "eta", "tol", "masses"}
calc_this_h_keywords == {"eta", "tol", "kernel"}

(* What minimise_A returns for the adiabats A: one root estimate a slot.   *)
minimise_A_results(A) == [DOMAIN A -> AVals]

CtorLists == {[j \in 1..n |-> I(j - 1)] : n \in 0..MaxParticles}
Ones(n) == [j \in 1..n |-> I(1)]

CtorArgs ==
    UNION {{[class |-> c, positions |-> p, energies |-> e, adiabats |-> a,
             eta |-> I(5), gamma |-> I(2), kernel |-> k] :
               <<c, e, a, k>> \in {"GadgetData", "PressureEntropyData"}
                                  \X {None, Ones(Len(p))}
                                  \X {None, Ones(Len(p))} \X Kernels}
           \cup
           {[class |-> "containers.GadgetData", positions |-> p,
             energies |-> e, adiabats |-> None, eta |-> Q(21, 25),
             gamma |-> Q(4, 3), kernel |-> "sph.kernel"] :
               e \in {None, Ones(Len(p))}} :
           p \in CtorLists}

NewGadgetData ==
    [positions |-> Unset, energies |-> Unset, adiabats |-> Unset,
     eta |-> Unset, kernel |-> "Unset", gamma |-> Unset,
     smoothing_lengths |-> Unset, densities |-> Unset, pressures |-> Unset]

(* self.gadget of a PressureEntropyData is the variable gd.                *)
NewPressureEntropyData ==
    [positions |-> Unset, gamma |-> Unset, kernel |-> "Unset",
     densities |-> Unset, smoothing_lengths |-> Unset,
     energies |-> Unset, adiabats |-> Unset, smoothed_pressures |-> Unset,
     smoothed_densities |-> Unset]

InitContainers ==
    /\ IdleKernel /\ IdleGadget /\ IdleMinimise
    /\ cargs \in CtorArgs
    /\ pc = cargs.class
    /\ gd = NewGadgetData
    /\ pe = NewPressureEntropyData
    /\ err = "None"
    /\ caught = {}

(* PressureEntropyData.__init__ up to the call of GadgetData.              *)
PressureEntropyData_init ==
    /\ pc = "PressureEntropyData"
    /\ LET e == PressureEntropyData_validate(cargs.energies, cargs.adiabats)
       IN  IF e # "None"
           THEN /\ err' = e
                /\ pc' = "raised"
                /\ UNCHANGED pe
           ELSE /\ pe' = [pe EXCEPT !.positions = cargs.positions,
                                    !.gamma = cargs.gamma,
                                    !.kernel = cargs.kernel]
                /\ pc' = "GadgetData"
                /\ UNCHANGED err
    /\ UNCHANGED <<kvars, gvars, mvars, cargs, gd, caught>>

(* GadgetData.__init__ up to the call of calculate_smoothing_lengths.      *)
GadgetData_init ==
    /\ pc = "GadgetData"
    /\ LET e == GadgetData_validate(cargs.energies, cargs.adiabats)
       IN  IF e # "None"
           THEN /\ err' = e
                /\ pc' = "raised"
                /\ UNCHANGED gd
           ELSE /\ gd' = [gd EXCEPT !.positions = cargs.positions,
                                    !.energies = cargs.energies,
                                    !.adiabats = cargs.adiabats,
                                    !.eta = cargs.eta,
                                    !.kernel = cargs.kernel,
                                    !.gamma = cargs.gamma]
                /\ pc' = "calculate_smoothing_lengths"
                /\ UNCHANGED err
    /\ UNCHANGED <<kvars, gvars, mvars, cargs, pe, caught>>

(* calculate_smoothing_lengths: calc_this_h is called once a particle, and *)
(* its call of h passes the keyword kernel; h returns root's estimate.     *)
GadgetData_calculate_smoothing_lengths ==
    /\ pc = "calculate_smoothing_lengths"
    /\ IF Len(gd.positions) > 0 /\ ~(calc_this_h_keywords \subseteq h_parameters)
       THEN /\ err' = "TypeError"
            /\ pc' = "raised"
            /\ UNCHANGED gd
       ELSE /\ \E hs \in [1..Len(gd.positions) -> HVals] :
                  gd' = [gd EXCEPT !.smoothing_lengths = hs]
            /\ pc' = "calculate_densities"
            /\ UNCHANGED err
    /\ UNCHANGED <<kvars, gvars, mvars, cargs, pe, caught>>

GadgetData_calculate_densities ==
    /\ pc = "calculate_densities"
    /\ LET sep_between_all ==
               [j \in 1..Len(gd.positions) |->
                  separations(gd.positions[j], gd.positions)]
           density_with_kernel(s, sm) == density(s, sm, None, gd.kernel)
       IN  gd' = [gd EXCEPT !.densities =
                     map2(density_with_kernel, sep_between_all,
                          gd.smoothing_lengths)]
    /\ pc' = "calculate_pressures"
    /\ UNCHANGED <<kvars, gvars, mvars, cargs, pe, err, caught>>

(* The pressures, and with adiabats given the energies that match; then    *)
(* GadgetData.__init__ returns, to the caller or to PressureEntropyData.   *)
GadgetData_calculate_pressures ==
    /\ pc = "calculate_pressures"
    /\ LET p_adiabat(rho, A) == gas_pressure_adiabat(rho, A, gd.gamma)
           u_at_gamma(a, rho) == internal_energy(a, rho, gd.gamma)
           p_at_gamma(rho, e) == gas_pressure(rho, e, gd.gamma)
       IN  IF cargs.adiabats # None
           THEN gd' = [gd EXCEPT
                         !.pressures = map2(p_adiabat, gd.densities,
                                            gd.adiabats),
                         !.energies = map2(u_at_gamma, gd.adiabats,
                                           gd.densities)]
           ELSE gd' = [gd EXCEPT
                         !.pressures = map2(p_at_gamma, gd.densities,
                                            gd.energies)]
    /\ pc' = IF cargs.class = "PressureEntropyData"
             THEN "calculate_adiabats" ELSE "constructed"
    /\ UNCHANGED <<kvars, gvars, mvars, cargs, pe, err, caught>>

(* PressureEntropyData.__init__ after GadgetData returned: the copies, and *)
(* the adiabats from the energies when none were given.                    *)
PressureEntropyData_calculate_adiabats ==
    /\ pc = "calculate_adiabats"
    /\ LET A_at_gamma(e, rho) == pressure_entropy_A(e, rho, pe.gamma)
       IN  pe' = [pe EXCEPT
                    !.densities = gd.densities,
                    !.smoothing_lengths = gd.smoothing_lengths,
                    !.energies = gd.energies,
                    !.adiabats = IF cargs.adiabats = None
                                 THEN map2(A_at_gamma, gd.energies,
                                           gd.densities)
                                 ELSE gd.adiabats]
    /\ pc' = "minimise"
    /\ UNCHANGED <<kvars, gvars, mvars, cargs, gd, err, caught>>

PressureEntropyData_minimise_A ==
    /\ pc = "minimise"
    /\ \E A \in minimise_A_results(pe.adiabats) :
          pe' = [pe EXCEPT !.adiabats = A]
    /\ pc' = "smoothed"
    /\ UNCHANGED <<kvars, gvars, mvars, cargs, gd, err, caught>>

(* self.pressures and self.density_twiddle, and the return.                *)
PressureEntropyData_smoothed ==
    /\ pc = "smoothed"
    /\ LET r == gd.positions
           sep_between_all ==
               [j \in 1..Len(r) |-> separations(r[j], r)]
           p_given_A(s, sm) ==
               pressure(s, pe.adiabats, sm, pe.kernel, pe.gamma, None)
           smoothed_pressures ==
               map2(p_given_A, sep_between_all, gd.smoothing_lengths)
           smoothed_at_gamma(a, p) == smoothed_density(a, p, pe.gamma)
       IN  pe' = [pe EXCEPT
                    !.smoothed_pressures = smoothed_pressures,
                    !.smoothed_densities =
                        map2(smoothed_at_gamma, pe.adiabats,
                             smoothed_pressures)]
    /\ pc' = "constructed"
    /\ UNCHANGED <<kvars, gvars, mvars, cargs, gd, err, caught>>

(* The top-level containers.py: GadgetData.__init__(positions, energies).  *)
containers_GadgetData_init ==
    /\ pc = "containers.GadgetData"
    /\ gd' = [gd EXCEPT !.positions = cargs.positions,
                        !.energies = cargs.energies,
                        !.kernel = "sph.kernel"]
    /\ pc' = "containers.calculate_smoothing_lengths"
    /\ UNCHANGED <<kvars, gvars, mvars, cargs, pe, err, caught>>

(* list(map(gadget.h, ...)): h is called with the separations alone and    *)
(* returns root's estimate.                                                *)
containers_calculate_smoothing_lengths ==
    /\ pc = "containers.calculate_smoothing_lengths"
    /\ \E hs \in [1..Len(gd.positions) -> HVals] :
          gd' = [gd EXCEPT !.smoothing_lengths = hs]
    /\ pc' = "containers.calculate_densities"
    /\ UNCHANGED <<kvars, gvars, mvars, cargs, pe, err, caught>>

containers_calculate_densities ==
    /\ pc = "containers.calculate_densities"
    /\ LET sep_between_all ==
               [j \in 1..Len(gd.positions) |->
                  GadgetData_separations(gd.positions[j], gd.positions)]
           gadget_density(s, sm) == density(s, sm, None, gd.kernel)
       IN  gd' = [gd EXCEPT !.densities =
                     map2(gadget_density, sep_between_all,
                          gd.smoothing_lengths)]
    /\ pc' = "containers.calculate_pressures"
    /\ UNCHANGED <<kvars, gvars, mvars, cargs, pe, err, caught>>

(* list(map(gadget.gas_pressure, densities, energies)) raises when         *)
(* energies is not a sequence.                                             *)
calculate_pressures_raises(densities, energies) ==
    IF energies = None THEN "TypeError" ELSE "None"

(* try: self.pressures = ...  except: self.pressures = []; then return.    *)
containers_calculate_pressures ==
    /\ pc = "containers.calculate_pressures"
    /\ LET e == calculate_pressures_raises(gd.densities, gd.energies)
           p_default_gamma(rho, u) == gas_pressure(rho, u, cargs.gamma)
       IN  IF e # "None"
           THEN /\ gd' = [gd EXCEPT !.pressures = <<>>]
                /\ caught' = caught \cup {e}
           ELSE /\ gd' = [gd EXCEPT !.pressures =
                             map2(p_default_gamma, gd.densities, gd.energies)]
                /\ UNCHANGED caught
    /\ pc' = "constructed"
    /\ UNCHANGED <<kvars, gvars, mvars, cargs, pe, err>>

NextContainers ==
    \/ PressureEntropyData_init
    \/ GadgetData_init
    \/ GadgetData_calculate_smoothing_lengths
    \/ GadgetData_calculate_densities
    \/ GadgetData_calculate_pressures
    \/ PressureEntropyData_calculate_adiabats
    \/ PressureEntropyData_minimise_A
    \/ PressureEntropyData_smoothed
    \/ containers_GadgetData_init
    \/ containers_calculate_smoothing_lengths
    \/ containers_calculate_densities
    \/ containers_calculate_pressures

SpecContainers == InitContainers /\ [][NextContainers]_vars

-----------------------------------------------------------------------------
(* The properties.                                                         *)

(* The radius, in units of h, beyond which a kernel's last branch returns  *)
(* 0.  gaussian_kernel has no such branch; 3 is the largest radius of the  *)
(* other five.                                                             *)
support(kernel) ==
    CASE kernel \in {"gadget_kernel", "tophat_kernel", "triangle_kernel"} -> 1
      [] kernel = "cubic_kernel" -> 2
      [] kernel \in {"quintic_kernel", "gaussian_kernel"} -> 3

BeyondSupport == RLe(RMul(I(support(kern)), smooth), sep)

(* C6, as claimed: every one of the six kernels returns a weight >= 0, and *)
(* exactly 0 whenever r >= support * h.                                    *)
C6_KernelValidityAllKernels ==
    pc = "kernel_returned" =>
        /\ RLe(I(0), weight)
        /\ BeyondSupport => weight = I(0)

(* C6, amended: every kernel returns a weight >= 0; gadget, cubic,         *)
(* quintic, tophat and triangle return exactly 0 whenever r >= support * h *)
(* (support 1, 2, 3, 1, 1); the gaussian kernel has no compact support and *)
(* returns a weight > 0 at every r, r = h, 2h and 3h included.             *)
C6_KernelValidity ==
    pc = "kernel_returned" =>
        /\ RLe(I(0), weight)
        /\ (kern # "gaussian_kernel" /\ BeyondSupport) => weight = I(0)
        /\ kern = "gaussian_kernel" => RLt(I(0), weight)

C6_Witness ==
    /\ pc = "kernel_returned"
    /\ kern = "quintic_kernel"
    /\ sep = RMul(I(3), smooth)
    /\ weight = I(0)

(* C5, as claimed: a value h returns has a residual within the tolerance   *)
(* (otherwise h would have signalled non-convergence).                     *)
C5_HReturnsOnlyConverged ==
    /\ pc = "h_returned" =>
          RLe(RAbs(to_reduce(args, ret)), root_tol(args.tol))
    /\ pc = "h_fitted" => fitted.success

(* The value of h * kernel(0, h) for the five piecewise kernels.           *)
central(kernel) ==
    CASE kernel = "gadget_kernel" -> Q(4, 3)
      [] kernel = "cubic_kernel" -> Q(2, 3)
      [] kernel = "quintic_kernel" -> Q(11, 20)
      [] kernel = "tophat_kernel" -> Q(1, 2)
      [] kernel = "triangle_kernel" -> I(1)

ConfiguredEta == {Q(21, 25), Q(1, 5)}

SingleParticle == args.r = <<I(0)>>

(* C7, as claimed: for a single particle the smoothing-length equation has *)
(* a solution h > 0 at the configured eta, and h returns a positive        *)
(* smoothing length with a positive density.                               *)
C7_SingleParticleSolvable ==
    (pc = "h_returned" /\ args.variant = "sphtests" /\ SingleParticle
        /\ args.eta \in ConfiguredEta) =>
        /\ \E t \in HVals : to_reduce(args, t) = I(0)
        /\ RLt(I(0), ret)
        /\ RLt(I(0), density(args.r, ret, args.masses, "gadget_kernel"))

(* C7, amended: for a single particle and the gadget, cubic, quintic,      *)
(* tophat and triangle kernels, h * density([0], h) is the same for every  *)
(* h > 0 (4/3, 2/3, 11/20, 1/2, 1), so the residual h calls root on is the *)
(* constant 4/(3 * mass * eta) - 1 at every trial point: the equation has  *)
(* a solution only when mass * eta = 4/3, and then every h > 0 is one.     *)
C7_SingleParticleResidualConstant ==
    /\ (pc = "density_returned" /\ SingleParticle
          /\ args.kernel # "gaussian_kernel") =>
             RMul(args.h, dens) = central(args.kernel)
    /\ (pc \in {"h_root", "h_fitted"}
          /\ args.variant = "sphtests" /\ SingleParticle) =>
             /\ fx = RSub(RDiv(Q(4, 3), RMul(args.mass, args.eta)), I(1))
             /\ fx = to_reduce(args, iterate)

C7_Witness ==
    /\ pc = "h_fitted" /\ args.variant = "sphtests" /\ SingleParticle
    /\ args.eta = Q(21, 25)
    /\ evals > 1
    /\ this_h # args.initial
    /\ fitted.x # args.initial
    /\ fx = Q(37, 63)

InSweep == pc \in {"for", "A_root", "A_fitted"}

(* C2: while particle index is being solved, the list its objective reads  *)
(* holds, in every slot before it, the value A_reduced returned for that   *)
(* particle in this sweep, in every slot after it the value the slot had   *)
(* when the sweep began, and in its own slot the trial point; between two  *)
(* particles every processed slot holds the value returned for it and      *)
(* every other slot its value from the previous sweep.                     *)
C2_GaussSeidel ==
    /\ pc \in {"A_root", "A_fitted"} =>
          /\ Len(swept) = index
          /\ DOMAIN P_read = DOMAIN sweep_start
          /\ \A j \in DOMAIN P_read :
                /\ j < index + 1 => P_read[j] = swept[j]
                /\ j = index + 1 => P_read[j] = this_A
                /\ j > index + 1 => P_read[j] = sweep_start[j]
    /\ pc = "for" =>
          /\ Len(swept) = index
          /\ \A j \in DOMAIN new :
                /\ j <= index => new[j] = swept[j]
                /\ j > index => new[j] = sweep_start[j]

C2_Witness ==
    /\ pc = "A_root"
    /\ Len(new) = 2 /\ index = 1 /\ sweeps >= 1
    /\ swept[1] # sweep_start[1]
    /\ this_A # sweep_start[2]
    /\ P_read = <<swept[1], this_A>>

(* C3: minimise_A returns only after at least one sweep, with the sum of   *)
(* |old_i - new_i| over the whole last sweep at most tol, and returns the  *)
(* list as that sweep left it; the sum is taken when a sweep is complete,  *)
(* and a sweep is under way only when the sum of the sweep before it       *)
(* (tol + 1 before the first) is above tol.                                *)
C3_SweepThenTest ==
    /\ pc = "minimise_A_returned" =>
          /\ sweeps >= 1
          /\ RLe(difference, margs.tol)
          /\ difference = diff(sweep_start, new)
          /\ result = new
    /\ (pc = "while" /\ sweeps >= 1) => difference = diff(sweep_start, new)
    /\ InSweep => RLt(margs.tol, difference)

C3_Witness ==
    /\ pc = "minimise_A_returned"
    /\ sweeps = 2
    /\ Len(result) = 2
    /\ result # margs.A
    /\ margs.tol = I(1) /\ difference = I(1)

(* C4, as claimed: the sweep loop is bounded, a sweep never begins once    *)
(* MaxSweeps sweeps have been made without convergence (a Divergence       *)
(* error is raised instead).                                               *)
C4_SweepsBounded == InSweep => sweeps < MaxSweeps

(* ---- the constructors ---- *)

Sphtests == cargs.class \in {"GadgetData", "PressureEntropyData"}

BothOrNeither == (cargs.energies = None) <=> (cargs.adiabats = None)

NothingComputed ==
    /\ gd.smoothing_lengths = Unset
    /\ gd.densities = Unset
    /\ gd.pressures = Unset

(* C1: constructing GadgetData or PressureEntropyData with both energies   *)
(* and adiabats, or with neither, raises the configuration error           *)
(* (AttributeError) before any smoothing length, density or pressure is    *)
(* computed; with exactly one of them the validation raises nothing.       *)
C1_ValidationFirst ==
    Sphtests =>
        /\ (BothOrNeither /\ pc # cargs.class) =>
               (pc = "raised" /\ err = "AttributeError" /\ NothingComputed)
        /\ ~BothOrNeither => err # "AttributeError"

C1_Witness ==
    /\ cargs.class = "GadgetData"
    /\ cargs.energies # None /\ cargs.adiabats # None
    /\ Len(cargs.positions) > 0
    /\ pc = "raised" /\ err = "AttributeError"

(* C8: a container never finishes construction after a calculation step    *)
(* failed: no failure is caught and replaced by a placeholder.             *)
C8_FailurePropagates == pc = "constructed" => caught = {}

(* C9: once GadgetData or PressureEntropyData is constructed, neither      *)
(* self.energies nor self.adiabats of the object is None.                  *)
C9_BothPopulated ==
    (Sphtests /\ pc = "constructed") =>
        LET self == IF cargs.class = "PressureEntropyData" THEN pe ELSE gd
        IN  /\ self.energies # None /\ self.energies # Unset
            /\ self.adiabats # None /\ self.adiabats # Unset

(* C10: no step of a construction fails because the selected kernel cannot *)
(* be passed to it.                                                        *)
C10_SelectedKernelPassed == Sphtests => err # "TypeError"

(* ---- one call of A_reduced ---- *)

(* C11: when the root search of A_reduced fails after trial evaluations    *)
(* have written into slot index of A, the slot holds on return the value   *)
(* it held before the search started.                                      *)
C11_RollbackOnFailure ==
    (pc = "A_reduced_returned" /\ ~A_fitted.success /\ index # -1) =>
        new[index + 1] = margs.A[index + 1]

(* C13: one call of A_reduced changes no slot of A other than slot index,  *)
(* neither while root evaluates trial points nor on return; on return slot *)
(* index holds the adiabat returned; with index = -1 the call changes no   *)
(* slot of A.                                                              *)
C13_OnlySlotIndex ==
    pc \in {"A_reduced_root", "A_reduced_fitted", "A_reduced_returned"} =>
        /\ Len(new) = Len(margs.A)
        /\ \A j \in DOMAIN new : j # index + 1 => new[j] = margs.A[j]
        /\ index = -1 => new = margs.A
        /\ (pc = "A_reduced_returned" /\ index # -1) =>
               new[index + 1] = result

C13_Witness ==
    /\ pc = "A_reduced_returned"
    /\ index = -1
    /\ Len(new) = 2
    /\ calls >= 2
    /\ result # margs.A[2]
    /\ new = margs.A

(* ---- the separations handed to density and h ---- *)

(* C12: the separations handed to density and to h are, for some positions *)
(* x and particle p of them, the absolute distances |x_j - x_p|, one for   *)
(* every particle: none is negative and p's own is 0; in every container   *)
(* variant.                                                                *)
C12_AbsoluteSeparations ==
    /\ \A j \in DOMAIN args.r : RLe(I(0), args.r[j])
    /\ \E x \in Positions :
          /\ Len(x) = Len(args.r)
          /\ \E p \in DOMAIN x :
                /\ args.r[p] = I(0)
                /\ \A j \in DOMAIN x : args.r[j] = RAbs(RSub(x[j], x[p]))

====
